---- MODULE Spec2Model ----
(***************************************************************************)
(* Net worth calculator (FastAPI): signed session cookies, identity        *)
(* resolution, signup / login / logout, calculate and history, over a      *)
(* users table and a calculations table.                                   *)
(*                                                                         *)
(* Requests are handled by coroutines that suspend at every database       *)
(* await; a request slot p of Procs is one coroutine, pc[p] its position.  *)
(***************************************************************************)
EXTENDS Integers, Sequences, FiniteSets, TLC

\* ------------------------------------------------------------------ bounds
MaxUserId == 2        \* ids the users table's sequence hands out
MaxCalcs == 2         \* rows the calculations table holds
MaxClock == 2         \* values of the database clock, now()
NumProcs == 2         \* requests in flight at once
MaxSalt == 1          \* salts gensalt() draws from
MaxFormFields == 1    \* fields present in a sparse calculate form

VARIABLES
  users,       \* table users: sequence of rows, in insertion order
  calcs,       \* table calculations: sequence of rows, in insertion order
  nextUserId,  \* next value of the users.id sequence
  nextCalcId,  \* next value of the calculations.id sequence
  now,         \* the database clock read by server_default=func.now()
  pc,          \* pc[p]: where request p is suspended
  req,         \* req[p]: the request's cookie and form fields
  loc,         \* loc[p]: the handler's local variables
  resp,        \* resp[p]: the response returned
  issued,      \* every Set-Cookie the server has sent: token, user row
  tok,         \* codec harness: the cookie value under test
  tokUid,      \* codec harness: the id the cookie was issued for
  tamperPos,   \* codec harness: index of the substituted character, 0 = none
  verified     \* codec harness: result of get_user_id_from_cookie, if run

vars == <<users, calcs, nextUserId, nextCalcId, now, pc, req, loc, resp,
          issued, tok, tokUid, tamperPos, verified>>

dbVars == <<users, calcs, nextUserId, nextCalcId, now>>
procVars == <<pc, req, loc, resp>>
codecVars == <<tok, tokUid, tamperPos, verified>>

Procs == 1..NumProcs

\* ------------------------------------------------------------ session codec
\* A cookie value is a string; a character of the URL-safe base64 alphabet
\* is its 6-bit value 0..63, the separator "." is Dot, and Plus and Slash are
\* "+" and "/", which the decoder reads as "-" (62) and "_" (63).
Dot == 64
Plus == 65
Slash == 66
B64 == 0..63
Chars == 0..66

\* urlsafe_b64decode: the 6-bit value of a character, -1 when it has none.
CharValue(c) ==
  IF c \in B64 THEN c ELSE IF c = Plus THEN 62 ELSE IF c = Slash THEN 63 ELSE -1

\* Python's None for an int | None result.
NoneId == -1

\* The value of the "session" cookie: absent (None) or a string.
NoCookie == [present |-> FALSE, value |-> <<>>]
CookieOf(s) == [present |-> TRUE, value |-> s]

\* SECRET_KEY, the only input of the signature besides the signed text.
SecretKey == 40503

\* json.dumps(user_id) for a one-digit id, then URL-safe base64 without
\* padding: one byte, two characters, the low 4 bits of the second unused.
DumpPayload(user_id) ==
  LET byte == 48 + user_id
  IN  <<byte \div 4, (byte % 4) * 16>>

\* base64 decode, then json.loads: an int, or NoneId for BadPayload.  The
\* decoder drops the unused low bits of the last character.
LoadPayload(value) ==
  IF Len(value) = 2 /\ CharValue(value[1]) >= 0 /\ CharValue(value[2]) >= 0
  THEN LET byte == CharValue(value[1]) * 4 + CharValue(value[2]) \div 16
       IN  IF byte \in 48..57 THEN byte - 48 ELSE NoneId
  ELSE NoneId

\* A number for a text, distinct for distinct texts of two characters.
RECURSIVE TextCode(_)
TextCode(value) ==
  IF value = <<>> THEN 1
  ELSE (TextCode(SubSeq(value, 1, Len(value) - 1)) * 67 + value[Len(value)])
         % 65536

\* The signature bytes of a text: HMAC under a key derived from SECRET_KEY,
\* here two bytes; an injective keyed function on the texts of the model.
GetSignature(value) == (TextCode(value) * 251 + SecretKey) % 65536

\* base64 of the two signature bytes: three characters, the low 2 bits of
\* the last one unused (the library's 20 bytes give 27 characters and the
\* same 2 unused bits).
EncodeSig(t) == <<t \div 1024, (t \div 16) % 64, (t % 16) * 4>>

\* base64 decode of a signature: the bytes, or NoneId when the text is not
\* three alphabet characters.  Unused low bits are not looked at.
DecodeSig(sig) ==
  IF Len(sig) = 3 /\ \A i \in 1..3 : CharValue(sig[i]) >= 0
  THEN CharValue(sig[1]) * 1024 + CharValue(sig[2]) * 16
         + CharValue(sig[3]) \div 4
  ELSE NoneId

\* Position of the last separator of a string, 0 when there is none.
LastDot(s) ==
  LET I == {i \in 1..Len(s) : s[i] = Dot}
  IN  IF I = {} THEN 0 ELSE CHOOSE i \in I : \A j \in I : j <= i

\* Variant: a signature check that accepts every well-formed signature.
AcceptAnySignature(value, sig) == DecodeSig(sig) # NoneId

\* Signer.verify_signature: the decoded signature is the signature of the text.
VerifySignature(value, sig) == DecodeSig(sig) = GetSignature(value)

\* Variant: a cookie signed for the following id.
WrongIdCookie(user_id) ==
  LET payload == DumpPayload((user_id + 1) % 10)
  IN  payload \o <<Dot>> \o EncodeSig(GetSignature(payload))

\* serializer.dumps(user_id): payload, separator, signature of the payload.
create_session_cookie(user_id) ==
  LET payload == DumpPayload(user_id)
  IN  payload \o <<Dot>> \o EncodeSig(GetSignature(payload))

\* serializer.loads(s): the payload when the signature verifies, NoneId for
\* BadSignature (no separator, wrong signature, bad payload).
SerializerLoads(s) ==
  LET d == LastDot(s)
  IN  IF d = 0 THEN NoneId
      ELSE LET value == SubSeq(s, 1, d - 1)
               sig == SubSeq(s, d + 1, Len(s))
           IN  IF VerifySignature(value, sig) THEN LoadPayload(value)
               ELSE NoneId

get_user_id_from_cookie(session) ==
  IF ~session.present \/ session.value = <<>> THEN NoneId
  ELSE SerializerLoads(session.value)

\* --------------------------------------------------- codec harness (SpecCodec)
\* verified before get_user_id_from_cookie has run on the token.
Unverified == -2

CodecInit ==
  /\ tok = NoCookie
  /\ tokUid = NoneId
  /\ tamperPos = 0
  /\ verified = Unverified

\* A token is issued for an id.
CodecIssue ==
  \E u \in 1..MaxUserId :
    /\ tok' = CookieOf(create_session_cookie(u))
    /\ tokUid' = u
    /\ tamperPos' = 0
    /\ verified' = Unverified

\* One character of the issued token is replaced by a different one.
CodecTamper ==
  /\ tok.present
  /\ tamperPos = 0
  /\ \E i \in 1..Len(tok.value), c \in Chars :
       /\ tok.value[i] # c
       /\ tok' = CookieOf([tok.value EXCEPT ![i] = c])
       /\ tamperPos' = i
  /\ verified' = Unverified
  /\ UNCHANGED tokUid

\* The token is verified.
CodecVerify ==
  /\ tok.present
  /\ verified = Unverified
  /\ verified' = get_user_id_from_cookie(tok)
  /\ UNCHANGED <<tok, tokUid, tamperPos>>


\* ------------------------------------------------------------------- models
\* Emails, names and passwords the forms are filled with.
Emails == {"a@x.com", "b@x.com"}
Names == {"A"}
Passwords == {"abc", "secret1", "secret2"}

\* Minimum password length of signup.
MinPasswordLength == 6

\* bcrypt: an opaque salted one-way hash; the salt is part of the hash.
NoHash == [salt |-> 0, digest |-> <<>>]
hashpw(password, salt) == [salt |-> salt, digest |-> <<salt, password>>]
checkpw(password, hash) == hashpw(password, hash.salt) = hash

\* A row of table users; NoUser is Python's None for a User | None.
NoUser == [id |-> NoneId, name |-> "", email |-> "", password_hash |-> NoHash]
User(id, name, email, password_hash) ==
  [id |-> id, name |-> name, email |-> email, password_hash |-> password_hash]

\* The fields of the calculate form, and the keys of the two dicts.
FormFields == {"cash", "investments", "property_value", "vehicles",
               "other_assets", "mortgage", "student_loans", "credit_card",
               "car_loans", "other_liabilities"}

\* Form(0): an absent field is 0.
FormValue(form, f) == IF f \in DOMAIN form THEN form[f] ELSE 0

AssetsOf(form) ==
  ("Cash / Savings" :> FormValue(form, "cash")) @@
  ("Investments" :> FormValue(form, "investments")) @@
  ("Property" :> FormValue(form, "property_value")) @@
  ("Vehicles" :> FormValue(form, "vehicles")) @@
  ("Other Assets" :> FormValue(form, "other_assets"))

LiabilitiesOf(form) ==
  ("Mortgage" :> FormValue(form, "mortgage")) @@
  ("Student Loans" :> FormValue(form, "student_loans")) @@
  ("Credit Card Debt" :> FormValue(form, "credit_card")) @@
  ("Car Loans" :> FormValue(form, "car_loans")) @@
  ("Other Liabilities" :> FormValue(form, "other_liabilities"))

\* sum(d.values())
RECURSIVE SumOver(_, _)
SumOver(d, keys) ==
  IF keys = {} THEN 0
  ELSE LET k == CHOOSE k \in keys : TRUE
       IN  d[k] + SumOver(d, keys \ {k})

SumValues(d) == SumOver(d, DOMAIN d)

\* A row of table calculations.
NoCalc == [id |-> NoneId, user_id |-> NoneId, assets |-> <<>>,
           liabilities |-> <<>>, total_assets |-> 0, total_liabilities |-> 0,
           net_worth |-> 0, created_at |-> 0]

\* ------------------------------------------------------------------ database
Rows(table) == {table[i] : i \in 1..Len(table)}

\* SELECT * FROM users WHERE email = :email, scalar_one_or_none()
SelectUserByEmail(email) ==
  LET S == {i \in 1..Len(users) : users[i].email = email}
  IN  IF S = {} THEN NoUser ELSE users[CHOOSE i \in S : \A j \in S : i <= j]

\* Variant: the lookup by id without its WHERE clause.
AnyUserById(id) == IF users = <<>> THEN NoUser ELSE users[1]

\* SELECT * FROM users WHERE id = :id, scalar_one_or_none()
SelectUserById(id) ==
  LET S == {i \in 1..Len(users) : users[i].id = id}
  IN  IF S = {} THEN NoUser ELSE users[CHOOSE i \in S : \A j \in S : i <= j]

\* The unique index on users.email: may a row with this email be inserted?
\* Variant: users.email without unique=True.
NoUniqueCheck(email) == TRUE

EmailIsFree(email) == \A i \in 1..Len(users) : users[i].email # email

\* The orders ORDER BY created_at DESC may return the rows of a table in:
\* every arrangement of the selected rows with no later row before an
\* earlier one; rows of equal created_at come in any order.
Arrangements(idx) ==
  {f \in [1..Cardinality(idx) -> idx] :
     \A i, j \in 1..Cardinality(idx) : i # j => f[i] # f[j]}

\* Variant: the history query without its WHERE clause.
SelectAllCalculations(user_id) ==
  LET idx == {i \in 1..Len(calcs) : TRUE}
  IN  {[k \in 1..Cardinality(idx) |-> calcs[f[k]]] :
        f \in {g \in Arrangements(idx) :
                \A i, j \in 1..Cardinality(idx) :
                  i < j => calcs[g[i]].created_at >= calcs[g[j]].created_at}}

SelectCalculations(user_id) ==
  LET idx == {i \in 1..Len(calcs) : calcs[i].user_id = user_id}
  IN  {[k \in 1..Cardinality(idx) |-> calcs[f[k]]] :
        f \in {g \in Arrangements(idx) :
                \A i, j \in 1..Cardinality(idx) :
                  i < j => calcs[g[i]].created_at >= calcs[g[j]].created_at}}

\* get_current_user once its query runs: the row of the cookie's id, or None.
get_current_user(session) ==
  LET user_id == get_user_id_from_cookie(session)
  IN  IF user_id = NoneId THEN NoUser ELSE SelectUserById(user_id)

\* ----------------------------------------------------- requests and responses
NoReq == [kind |-> "none", name |-> "", email |-> "", password |-> "",
          confirm_password |-> "", session |-> NoCookie, form |-> <<>>]

NoLoc == [user |-> NoUser, assets |-> <<>>, liabilities |-> <<>>,
          total_assets |-> 0, total_liabilities |-> 0, net_worth |-> 0,
          calc |-> NoCalc]

NoResp == [kind |-> "none", target |-> "", error |-> "", name |-> "",
           email |-> "", set_cookie |-> NoCookie, delete_cookie |-> FALSE,
           user |-> NoUser, show_result |-> FALSE, saved |-> FALSE,
           assets |-> <<>>, liabilities |-> <<>>, total_assets |-> 0,
           total_liabilities |-> 0, net_worth |-> 0, calculations |-> <<>>]

TemplateResponse(template) ==
  [NoResp EXCEPT !.kind = "template", !.target = template]

RedirectResponse(url) ==
  [NoResp EXCEPT !.kind = "redirect", !.target = url]

\* An exception that leaves the handler: the framework answers 500.
ServerError == [NoResp EXCEPT !.kind = "fault", !.target = "500"]

PasswordsDoNotMatch == "Passwords do not match."
PasswordTooShort == "Password must be at least 6 characters."
EmailExists == "An account with this email already exists."
InvalidCredentials == "Invalid email or password."


\* ------------------------------------------------------------------- inputs
\* Cookie values a request may carry: absent, empty, no separator, a signed
\* token of every id, and two made from the token of id 1: the last
\* signature character changed in its unused bits, and the payload of id 2
\* under the signature of id 1.
CookieInputs ==
  LET t1 == create_session_cookie(1)
  IN  {NoCookie, CookieOf(<<>>), CookieOf(<<13, 20>>)}
        \cup {CookieOf(create_session_cookie(u)) : u \in 1..MaxUserId}
        \cup {CookieOf([t1 EXCEPT ![Len(t1)] = t1[Len(t1)] + 1]),
              CookieOf(DumpPayload(2) \o SubSeq(t1, 3, Len(t1)))}

SignupInputs ==
  {[NoReq EXCEPT !.kind = "signup", !.name = n, !.email = e, !.password = pw,
                 !.confirm_password = cpw] :
     n \in Names, e \in Emails, pw \in {"abc", "secret1"},
     cpw \in {"abc", "secret1"}}

LoginInputs ==
  {[NoReq EXCEPT !.kind = "login", !.email = e, !.password = pw] :
     e \in Emails, pw \in Passwords}

\* Forms of the requests of Spec: no field; some fields, one negative.
Forms ==
  {<<>>,
   ("cash" :> -2) @@ ("vehicles" :> 1) @@ ("mortgage" :> 3) @@ ("car_loans" :> 0)}

\* --------------------------------------------------------------------- Init
Init ==
  /\ users = <<>>
  /\ calcs = <<>>
  /\ nextUserId = 1
  /\ nextCalcId = 1
  /\ now = 1
  /\ pc = [p \in Procs |-> "idle"]
  /\ req = [p \in Procs |-> NoReq]
  /\ loc = [p \in Procs |-> NoLoc]
  /\ resp = [p \in Procs |-> NoResp]
  /\ issued = {}
  /\ CodecInit

\* The handler of p returns r.
Return(p, r) ==
  /\ pc' = [pc EXCEPT ![p] = "done"]
  /\ resp' = [resp EXCEPT ![p] = r]

\* The handler of p suspends at an await.
Await(p, label) ==
  /\ pc' = [pc EXCEPT ![p] = label]
  /\ UNCHANGED resp

\* ------------------------------------------------------------------- signup
SignupError(r, error) ==
  [TemplateResponse("signup.html") EXCEPT
     !.error = error, !.name = r.name, !.email = r.email]

\* Variant: signup without the minimum-length validation.
ValidateMatchOnly(r) ==
  IF r.password # r.confirm_password THEN PasswordsDoNotMatch ELSE ""

\* The two validations of signup before its first query: the message of the
\* one that fails, "" when both pass.
ValidateSignup(r) ==
  IF r.password # r.confirm_password THEN PasswordsDoNotMatch
  ELSE IF Len(r.password) < MinPasswordLength THEN PasswordTooShort
  ELSE ""

\* POST /signup up to the first await.
SignupStart(p, inputs) ==
  /\ pc[p] = "idle"
  /\ \E r \in inputs :
       /\ req' = [req EXCEPT ![p] = r]
       /\ IF ValidateSignup(r) # ""
          THEN Return(p, SignupError(r, ValidateSignup(r)))
          ELSE Await(p, "signup_select")
  /\ UNCHANGED <<dbVars, loc, issued, codecVars>>

\* The existence lookup returns.
SignupSelect(p) ==
  /\ pc[p] = "signup_select"
  /\ IF SelectUserByEmail(req[p].email) # NoUser
     THEN Return(p, SignupError(req[p], EmailExists))
     ELSE Await(p, "signup_commit")
  /\ UNCHANGED <<dbVars, req, loc, issued, codecVars>>

\* Variant: a commit that replaces the row of a taken email by the new row.
SignupCommitReplace(p) ==
  /\ pc[p] = "signup_commit"
  /\ nextUserId <= MaxUserId
  /\ nextUserId' = nextUserId + 1
  /\ \E salt \in 1..MaxSalt :
       LET user == User(nextUserId, req[p].name, req[p].email,
                        hashpw(req[p].password, salt))
           keep(u) == u.email # req[p].email
       IN  /\ users' = Append(SelectSeq(users, keep), user)
           /\ loc' = [loc EXCEPT ![p].user = user]
           /\ Await(p, "signup_refresh")
  /\ UNCHANGED <<calcs, nextCalcId, now, req, issued, codecVars>>

\* db.add(user); await db.commit(): the INSERT takes the next id of the
\* sequence, and fails with IntegrityError on the unique index of email;
\* the handler does not catch it.
SignupCommit(p) ==
  /\ pc[p] = "signup_commit"
  /\ nextUserId <= MaxUserId
  /\ nextUserId' = nextUserId + 1
  /\ \E salt \in 1..MaxSalt :
       LET user == User(nextUserId, req[p].name, req[p].email,
                        hashpw(req[p].password, salt))
       IN  IF EmailIsFree(req[p].email)
           THEN /\ users' = Append(users, user)
                /\ loc' = [loc EXCEPT ![p].user = user]
                /\ Await(p, "signup_refresh")
           ELSE /\ Return(p, ServerError)
                /\ UNCHANGED <<users, loc>>
  /\ UNCHANGED <<calcs, nextCalcId, now, req, issued, codecVars>>

\* await db.refresh(user), then the redirect that sets the cookie.
SignupRefresh(p) ==
  /\ pc[p] = "signup_refresh"
  /\ LET user == SelectUserById(loc[p].user.id)
         cookie == CookieOf(create_session_cookie(user.id))
     IN  /\ loc' = [loc EXCEPT ![p].user = user]
         /\ Return(p, [RedirectResponse("/") EXCEPT !.set_cookie = cookie])
         /\ issued' = issued \cup {[token |-> cookie, user |-> user]}
  /\ UNCHANGED <<dbVars, req, codecVars>>

\* -------------------------------------------------------------------- login
LoginStart(p) ==
  /\ pc[p] = "idle"
  /\ \E r \in LoginInputs : req' = [req EXCEPT ![p] = r]
  /\ Await(p, "login_select")
  /\ UNCHANGED <<dbVars, loc, issued, codecVars>>

\* Variant: a login that tells an unknown email from a wrong password.
LeakyLoginResponse(r, user) ==
  IF user = NoUser
  THEN [TemplateResponse("login.html") EXCEPT
          !.error = "No account with this email.", !.email = r.email]
  ELSE IF ~checkpw(r.password, user.password_hash)
  THEN [TemplateResponse("login.html") EXCEPT
          !.error = InvalidCredentials, !.email = r.email]
  ELSE [RedirectResponse("/") EXCEPT
          !.set_cookie = CookieOf(create_session_cookie(user.id))]

\* The response of login for the row the lookup found.
LoginResponse(r, user) ==
  IF user = NoUser \/ ~checkpw(r.password, user.password_hash)
  THEN [TemplateResponse("login.html") EXCEPT
          !.error = InvalidCredentials, !.email = r.email]
  ELSE [RedirectResponse("/") EXCEPT
          !.set_cookie = CookieOf(create_session_cookie(user.id))]

\* The lookup by email returns; the password is checked; the response.
LoginSelect(p) ==
  /\ pc[p] = "login_select"
  /\ LET user == SelectUserByEmail(req[p].email)
         r == LoginResponse(req[p], user)
     IN  /\ loc' = [loc EXCEPT ![p].user = user]
         /\ Return(p, r)
         /\ issued' = IF r.set_cookie.present
                      THEN issued \cup {[token |-> r.set_cookie, user |-> user]}
                      ELSE issued
  /\ UNCHANGED <<dbVars, req, codecVars>>

\* ------------------------------------------------------------------- logout
Logout(p) ==
  /\ pc[p] = "idle"
  /\ req' = [req EXCEPT ![p] = [NoReq EXCEPT !.kind = "logout"]]
  /\ Return(p, [RedirectResponse("/") EXCEPT !.delete_cookie = TRUE])
  /\ UNCHANGED <<dbVars, loc, issued, codecVars>>


\* ---------------------------------------------------------------- calculate
\* Variant: liabilities added instead of subtracted.
NetWorthAsSum(total_assets, total_liabilities) ==
  total_assets + total_liabilities

\* Net Worth = Assets - Liabilities
NetWorth(total_assets, total_liabilities) == total_assets - total_liabilities

\* The dicts and totals calculate computes from its form fields.
Compute(form) ==
  LET assets == AssetsOf(form)
      liabilities == LiabilitiesOf(form)
      total_assets == SumValues(assets)
      total_liabilities == SumValues(liabilities)
  IN  [NoLoc EXCEPT !.assets = assets, !.liabilities = liabilities,
                    !.total_assets = total_assets,
                    !.total_liabilities = total_liabilities,
                    !.net_worth = NetWorth(total_assets, total_liabilities)]

\* The page calculate renders from its locals.
CalculateResponse(l) ==
  [TemplateResponse("index.html") EXCEPT
     !.user = l.user, !.assets = l.assets, !.liabilities = l.liabilities,
     !.total_assets = l.total_assets,
     !.total_liabilities = l.total_liabilities, !.net_worth = l.net_worth,
     !.show_result = TRUE, !.saved = (l.user # NoUser)]

\* POST /calculate up to the first await: the totals, and the cookie's id;
\* without an id get_current_user returns None with no query.
CalculateStart(p, cookies, forms) ==
  /\ pc[p] = "idle"
  /\ \E c \in cookies, form \in forms :
       /\ req' = [req EXCEPT ![p] = [NoReq EXCEPT !.kind = "calculate",
                                                  !.session = c, !.form = form]]
       /\ loc' = [loc EXCEPT ![p] = Compute(form)]
       /\ IF get_user_id_from_cookie(c) = NoneId
          THEN Return(p, CalculateResponse(Compute(form)))
          ELSE Await(p, "calculate_user")
  /\ UNCHANGED <<dbVars, issued, codecVars>>

\* Variant: calculate saving without a user.
SaveForAnyone(user) == TRUE

\* if user:
ShouldSave(user) == user # NoUser

\* The query of get_current_user returns; a Calculation is staged if there
\* is a user.  The query opened the session's transaction, and now() of the
\* INSERT that follows in it is the time the transaction started.
CalculateUser(p) ==
  /\ pc[p] = "calculate_user"
  /\ LET user == get_current_user(req[p].session)
         l == [loc[p] EXCEPT !.user = user]
     IN  IF ShouldSave(user)
         THEN /\ loc' = [loc EXCEPT ![p] =
                   [l EXCEPT !.calc =
                      [NoCalc EXCEPT
                         !.user_id = user.id, !.assets = l.assets,
                         !.liabilities = l.liabilities,
                         !.total_assets = l.total_assets,
                         !.total_liabilities = l.total_liabilities,
                         !.net_worth = l.net_worth,
                         !.created_at = now]]]
              /\ Await(p, "calculate_commit")
         ELSE /\ loc' = [loc EXCEPT ![p] = l]
              /\ Return(p, CalculateResponse(l))
  /\ UNCHANGED <<dbVars, req, issued, codecVars>>

\* await db.commit(): the INSERT; the id is the next of the sequence, and
\* created_at the start of the transaction.
CalculateCommit(p) ==
  /\ pc[p] = "calculate_commit"
  /\ Len(calcs) < MaxCalcs
  /\ calcs' = Append(calcs, [loc[p].calc EXCEPT !.id = nextCalcId])
  /\ nextCalcId' = nextCalcId + 1
  /\ Return(p, CalculateResponse(loc[p]))
  /\ UNCHANGED <<users, nextUserId, now, req, loc, issued, codecVars>>

\* ------------------------------------------------------------------ history
\* GET /history up to the first await.
HistoryStart(p) ==
  /\ pc[p] = "idle"
  /\ \E c \in CookieInputs :
       /\ req' = [req EXCEPT ![p] = [NoReq EXCEPT !.kind = "history",
                                                  !.session = c]]
       /\ IF get_user_id_from_cookie(c) = NoneId
          THEN Return(p, RedirectResponse("/login"))
          ELSE Await(p, "history_user")
  /\ UNCHANGED <<dbVars, loc, issued, codecVars>>

\* The query of get_current_user returns.
HistoryUser(p) ==
  /\ pc[p] = "history_user"
  /\ LET user == get_current_user(req[p].session)
     IN  /\ loc' = [loc EXCEPT ![p].user = user]
         /\ IF user = NoUser
            THEN Return(p, RedirectResponse("/login"))
            ELSE Await(p, "history_select")
  /\ UNCHANGED <<dbVars, req, issued, codecVars>>

\* The query for the user's calculations returns, newest first.
HistorySelect(p) ==
  /\ pc[p] = "history_select"
  /\ \E calculations \in SelectCalculations(loc[p].user.id) :
       Return(p, [TemplateResponse("history.html") EXCEPT
                    !.user = loc[p].user, !.calculations = calculations])
  /\ UNCHANGED <<dbVars, req, loc, issued, codecVars>>

\* --------------------------------------------------------------------- home
\* GET / up to the first await.
HomeStart(p) ==
  /\ pc[p] = "idle"
  /\ \E c \in CookieInputs :
       /\ req' = [req EXCEPT ![p] = [NoReq EXCEPT !.kind = "home",
                                                  !.session = c]]
       /\ IF get_user_id_from_cookie(c) = NoneId
          THEN Return(p, TemplateResponse("index.html"))
          ELSE Await(p, "home_user")
  /\ UNCHANGED <<dbVars, loc, issued, codecVars>>

\* The query of get_current_user returns; the page is rendered.
HomeUser(p) ==
  /\ pc[p] = "home_user"
  /\ LET user == get_current_user(req[p].session)
     IN  /\ loc' = [loc EXCEPT ![p].user = user]
         /\ Return(p, [TemplateResponse("index.html") EXCEPT !.user = user])
  /\ UNCHANGED <<dbVars, req, issued, codecVars>>

\* ------------------------------------------------------------- environment
\* The response is sent; the slot takes the next request.
Finish(p) ==
  /\ pc[p] = "done"
  /\ pc' = [pc EXCEPT ![p] = "idle"]
  /\ req' = [req EXCEPT ![p] = NoReq]
  /\ loc' = [loc EXCEPT ![p] = NoLoc]
  /\ resp' = [resp EXCEPT ![p] = NoResp]
  /\ UNCHANGED <<dbVars, issued, codecVars>>

\* The database clock advances.
Tick ==
  /\ now < MaxClock
  /\ now' = now + 1
  /\ UNCHANGED <<users, calcs, nextUserId, nextCalcId, procVars, issued,
                 codecVars>>

\* ----------------------------------------------------------- specifications
Next ==
  \/ \E p \in Procs : SignupStart(p, SignupInputs)
  \/ \E p \in Procs : SignupSelect(p)
  \/ \E p \in Procs : SignupCommit(p)
  \/ \E p \in Procs : SignupRefresh(p)
  \/ \E p \in Procs : LoginStart(p)
  \/ \E p \in Procs : LoginSelect(p)
  \/ \E p \in Procs : Logout(p)
  \/ \E p \in Procs : CalculateStart(p, CookieInputs, Forms)
  \/ \E p \in Procs : CalculateUser(p)
  \/ \E p \in Procs : CalculateCommit(p)
  \/ \E p \in Procs : HistoryStart(p)
  \/ \E p \in Procs : HistoryUser(p)
  \/ \E p \in Procs : HistorySelect(p)
  \/ \E p \in Procs : HomeStart(p)
  \/ \E p \in Procs : HomeUser(p)
  \/ \E p \in Procs : Finish(p)

Spec == Init /\ [][Next]_vars

\* The codec alone: issue, change one character, verify.
NextCodec ==
  \/ CodecIssue /\ UNCHANGED <<dbVars, procVars, issued>>
  \/ CodecTamper /\ UNCHANGED <<dbVars, procVars, issued>>
  \/ CodecVerify /\ UNCHANGED <<dbVars, procVars, issued>>

SpecCodec == Init /\ [][NextCodec]_vars


\* Calculations alone, one request at a time, over many forms: sparse forms
\* with at most MaxFormFields fields present, and forms with every field.
Amounts == {-2, 0, 3}

SparseForms ==
  UNION {[S -> Amounts] :
           S \in {T \in SUBSET FormFields : Cardinality(T) <= MaxFormFields}}

FullForms ==
  {[f \in FormFields |-> a] : a \in Amounts}
    \cup {[f \in FormFields |->
             IF f \in {"cash", "credit_card"} THEN -2
             ELSE IF f \in {"vehicles", "mortgage", "car_loans"} THEN 3
             ELSE 0]}

WideForms == SparseForms \cup FullForms

CalcSignupInputs ==
  {[NoReq EXCEPT !.kind = "signup", !.name = "A", !.email = "a@x.com",
                 !.password = "secret1", !.confirm_password = "secret1"]}

CalcCookieInputs == {NoCookie, CookieOf(create_session_cookie(1))}

NextCalc ==
  \/ SignupStart(1, CalcSignupInputs)
  \/ SignupSelect(1)
  \/ SignupCommit(1)
  \/ SignupRefresh(1)
  \/ CalculateStart(1, CalcCookieInputs, WideForms)
  \/ CalculateUser(1)
  \/ CalculateCommit(1)
  \/ Finish(1)
  \/ Tick

SpecCalc == Init /\ [][NextCalc]_vars

\* ------------------------------------------------------------------- claims

OwnersOf(session) ==
  {u \in Rows(users) : u.id = get_user_id_from_cookie(session)}

\* C1: a history request that returns either redirects to the login view,
\* when its cookie resolves to no user, or renders exactly the stored
\* calculations whose user_id is the id of the user its cookie resolves to,
\* each once; it never returns a calculation of another user.
C1_HistoryOnlyOwn ==
  [][\A p \in Procs :
       (req'[p].kind = "history" /\ pc[p] # "done" /\ pc'[p] = "done") =>
         LET owners == OwnersOf(req'[p].session)
             own == {i \in 1..Len(calcs) :
                       calcs[i].user_id =
                         get_user_id_from_cookie(req'[p].session)}
             shown == resp'[p].calculations
         IN  IF owners = {}
             THEN resp'[p] = RedirectResponse("/login")
             ELSE /\ resp'[p].kind = "template"
                  /\ resp'[p].target = "history.html"
                  /\ resp'[p].user \in owners
                  /\ Len(shown) = Cardinality(own)
                  /\ Rows(shown) = {calcs[i] : i \in own}
                  /\ \A k \in 1..Len(shown) :
                       shown[k].user_id = resp'[p].user.id]_vars

\* C1 witness: a history page with a calculation on it was returned while
\* the table holds a calculation of another user.
C1_Witness ==
  \E p \in Procs :
    /\ pc[p] = "done"
    /\ req[p].kind = "history"
    /\ resp[p].calculations # <<>>
    /\ \E c \in Rows(calcs) : c.user_id # resp[p].user.id

\* C2: no two rows of users have the same email, and of two signup requests
\* with the same email at most one is answered with a session cookie.
C2_OneSignupPerEmail ==
  /\ \A i, j \in 1..Len(users) : i # j => users[i].email # users[j].email
  /\ \A p, q \in Procs :
       (p # q /\ req[p].kind = "signup" /\ req[q].kind = "signup"
          /\ req[p].email = req[q].email)
         => ~(resp[p].set_cookie.present /\ resp[q].set_cookie.present)

\* C2 witness: two signups with one email both passed the existence lookup;
\* one was answered with the cookie, the other's commit failed.
C2_Witness ==
  \E p, q \in Procs :
    /\ p # q
    /\ req[p].kind = "signup" /\ req[q].kind = "signup"
    /\ req[p].email = req[q].email
    /\ resp[p].set_cookie.present
    /\ resp[q].kind = "fault"

\* C3: a signup whose form passes the two validations and which is not
\* answered with the redirect is answered with the signup form and the
\* "email already exists" message, also when its commit was the one that
\* failed on the unique index.
C3_DuplicateIsValidationError ==
  \A p \in Procs :
    (pc[p] = "done" /\ req[p].kind = "signup"
       /\ req[p].password = req[p].confirm_password
       /\ Len(req[p].password) >= 6
       /\ resp[p].kind # "redirect")
      => resp[p] = [TemplateResponse("signup.html") EXCEPT
                      !.error = "An account with this email already exists.",
                      !.name = req[p].name, !.email = req[p].email]

\* C5: get_current_user never faults; for a cookie that is absent, empty or
\* does not verify it returns None without a query; when its query runs it
\* returns None if no row has the cookie's id and otherwise the one row with
\* that id.
C5_ResolveNeverWrongUser ==
  [][\A p \in Procs :
       (req'[p].kind \in {"home", "history", "calculate"} /\ pc'[p] # pc[p]) =>
         LET session == req'[p].session
             user_id == get_user_id_from_cookie(session)
             owners == OwnersOf(session)
         IN  /\ resp'[p].kind # "fault"
             /\ (~session.present \/ session.value = <<>>
                   \/ LastDot(session.value) = 0) => user_id = NoneId
             /\ pc[p] = "idle" =>
                  IF user_id = NoneId
                  THEN pc'[p] = "done" /\ loc'[p].user = NoUser
                         /\ resp'[p].user = NoUser
                  ELSE pc'[p] \in {"home_user", "history_user",
                                   "calculate_user"}
             /\ pc[p] \in {"home_user", "history_user", "calculate_user"} =>
                  IF owners = {}
                  THEN loc'[p].user = NoUser /\ pc'[p] = "done"
                         /\ resp'[p].user = NoUser
                  ELSE owners = {loc'[p].user}]_vars

\* C5 witness: a request whose cookie is the signed token of an id no row
\* has was resolved to None while the table holds another user's row.
C5_Witness ==
  \E p \in Procs :
    /\ pc[p] = "done"
    /\ req[p].kind = "home"
    /\ get_user_id_from_cookie(req[p].session) = MaxUserId
    /\ resp[p].user = NoUser
    /\ users # <<>>


\* The outcome of a rejected signup, at the step that rejects it: the signup
\* form with the message and the entered name and email, no cookie, no row
\* created.
SignupRejected(p, message) ==
  /\ pc'[p] = "done"
  /\ resp'[p].kind = "template"
  /\ resp'[p].target = "signup.html"
  /\ resp'[p].error = message
  /\ resp'[p].name = req'[p].name
  /\ resp'[p].email = req'[p].email
  /\ ~resp'[p].set_cookie.present
  /\ loc'[p].user = NoUser
  /\ users' = users
  /\ nextUserId' = nextUserId
  /\ issued' = issued

\* C6: a signup whose passwords differ, or whose password has fewer than 6
\* characters (matching confirmation or not), is rejected before any query,
\* and a signup whose existence lookup finds a row with its email is
\* rejected by that lookup; each time with its validation message, the
\* users table unchanged and no cookie issued.
C6_SignupValidation ==
  [][\A p \in Procs :
       (req'[p].kind = "signup" /\ pc'[p] # pc[p]) =>
         LET r == req'[p]
         IN  /\ r.password # r.confirm_password =>
                  SignupRejected(p, "Passwords do not match.")
             /\ (r.password = r.confirm_password /\ Len(r.password) < 6) =>
                  SignupRejected(p, "Password must be at least 6 characters.")
             /\ Len(r.password) < 6 => pc'[p] = "done" /\ users' = users
             /\ (pc[p] = "signup_select"
                   /\ \E u \in Rows(users) : u.email = r.email) =>
                  SignupRejected(p,
                    "An account with this email already exists.")]_vars

\* C6 witness: a signup was rejected because its email exists, and another
\* because its 3-character password is too short.
C6_Witness ==
  \E p, q \in Procs :
    /\ pc[p] = "done" /\ req[p].kind = "signup"
    /\ resp[p].error = EmailExists
    /\ Len(users) = 1
    /\ pc[q] = "done" /\ req[q].kind = "signup"
    /\ req[q].password = "abc" /\ req[q].confirm_password = "abc"
    /\ resp[q].error = PasswordTooShort

\* C7: a login is answered with a cookie only if, when its lookup runs, a
\* row has its email and its password verifies against that row's hash, and
\* the cookie is then the token of that row's id; every other login gets one
\* and the same page, no cookie and no redirect: the page depends on nothing
\* but the email that was entered, not on whether a row has it.
C7_LoginNoExistenceLeak ==
  [][\A p \in Procs :
       (pc[p] = "login_select" /\ pc'[p] # pc[p]) =>
         LET matching == {u \in Rows(users) :
                            /\ u.email = req[p].email
                            /\ u.password_hash =
                                 hashpw(req[p].password, u.password_hash.salt)}
         IN  /\ pc'[p] = "done"
             /\ IF matching = {}
                THEN /\ resp'[p] = [NoResp EXCEPT
                          !.kind = "template", !.target = "login.html",
                          !.error = "Invalid email or password.",
                          !.email = req[p].email]
                     /\ issued' = issued
                ELSE /\ resp'[p].kind = "redirect"
                     /\ resp'[p].set_cookie.present
                     /\ \E u \in matching :
                          get_user_id_from_cookie(resp'[p].set_cookie)
                            = u.id]_vars

\* C7 witness: a login with a wrong password for an existing email and a
\* login for an email no row has were both answered, with the same message.
C7_Witness ==
  \E p, q \in Procs :
    /\ pc[p] = "done" /\ req[p].kind = "login"
    /\ pc[q] = "done" /\ req[q].kind = "login"
    /\ loc[p].user # NoUser /\ loc[p].user.email = req[p].email
    /\ loc[q].user = NoUser
    /\ \A u \in Rows(users) : u.email # req[q].email
    /\ resp[p].error = InvalidCredentials
    /\ resp[q].error = resp[p].error

\* C8: the commit of a signup appends exactly one row, with an id no row
\* had; the cookie of a signup is the token of that row's id and the cookie
\* of a login the token of the id of the row with the login's email; and a
\* token, once issued, verifies to the id of the row it was issued for, and
\* to no other row, in every later state.
C8_TokensBoundForever ==
  [][/\ \A t \in issued' :
          {u \in Rows(users') : u.id = get_user_id_from_cookie(t.token)}
            = {t.user}
     /\ issued \subseteq issued'
     /\ \A p \in Procs :
          /\ (pc[p] = "signup_commit" /\ pc'[p] = "signup_refresh") =>
               /\ Len(users') = Len(users) + 1
               /\ SubSeq(users', 1, Len(users)) = users
               /\ users'[Len(users')].email = req[p].email
               /\ \A u \in Rows(users) : u.id # users'[Len(users')].id
               /\ loc'[p].user = users'[Len(users')]
          /\ (pc[p] = "signup_refresh" /\ pc'[p] = "done") =>
               /\ users' = users
               /\ resp'[p].set_cookie.present
               /\ get_user_id_from_cookie(resp'[p].set_cookie) = loc[p].user.id
               /\ loc[p].user \in Rows(users)
               /\ [token |-> resp'[p].set_cookie, user |-> loc[p].user]
                    \in issued'
          /\ (pc[p] = "login_select" /\ resp'[p].set_cookie.present) =>
               \E u \in Rows(users) :
                 /\ u.email = req[p].email
                 /\ get_user_id_from_cookie(resp'[p].set_cookie) = u.id
                 /\ [token |-> resp'[p].set_cookie, user |-> u] \in issued'
          /\ (pc[p] # "done" /\ pc'[p] = "done"
                /\ resp'[p].set_cookie.present) =>
               pc[p] \in {"signup_refresh", "login_select"}]_vars

\* C8 witness: tokens were issued by a signup and by a login, for two users,
\* and a logout has been answered since.
C8_Witness ==
  /\ Cardinality(issued) = 2
  /\ Len(users) = 2
  /\ \E p, q \in Procs :
       /\ pc[p] = "done" /\ req[p].kind = "logout" /\ resp[p].delete_cookie
       /\ pc[q] = "done" /\ req[q].kind = "login"
       /\ resp[q].set_cookie.present

\* C9: a calculate request appends exactly one row to calculations, with
\* the user_id of the user its cookie resolves to, when the cookie resolves
\* to a user, and appends nothing otherwise; its page says saved exactly when
\* the request appended a row.
C9_SavedIffPersisted ==
  [][\A p \in Procs :
       (req'[p].kind = "calculate" /\ pc'[p] # pc[p]) =>
         LET owners == OwnersOf(req'[p].session)
         IN  IF pc[p] = "idle"
             THEN /\ calcs' = calcs
                  /\ IF get_user_id_from_cookie(req'[p].session) = NoneId
                     THEN pc'[p] = "done" /\ ~resp'[p].saved
                            /\ resp'[p].show_result
                     ELSE pc'[p] = "calculate_user"
             ELSE IF pc[p] = "calculate_user"
             THEN /\ calcs' = calcs
                  /\ IF owners = {}
                     THEN pc'[p] = "done" /\ ~resp'[p].saved
                            /\ resp'[p].show_result
                     ELSE pc'[p] = "calculate_commit"
             ELSE /\ pc[p] = "calculate_commit"
                  /\ pc'[p] = "done"
                  /\ resp'[p].saved
                  /\ resp'[p].show_result
                  /\ Len(calcs') = Len(calcs) + 1
                  /\ SubSeq(calcs', 1, Len(calcs)) = calcs
                  /\ \E u \in owners :
                       /\ calcs'[Len(calcs')].user_id = u.id
                       /\ resp'[p].user = u
                  /\ \A c \in Rows(calcs) : c.id # calcs'[Len(calcs')].id]_vars

\* C9 witness: one calculate was answered saved, its row stored, and
\* another, anonymous, was answered not saved.
C9_Witness ==
  \E p, q \in Procs :
    /\ pc[p] = "done" /\ req[p].kind = "calculate" /\ resp[p].saved
    /\ \E c \in Rows(calcs) : c.user_id = resp[p].user.id
    /\ pc[q] = "done" /\ req[q].kind = "calculate" /\ ~resp[q].saved
    /\ Len(calcs) = 1

\* C10: every stored calculation has total_assets the sum of the five values
\* of its assets, total_liabilities the sum of the five values of its
\* liabilities, and net_worth their difference.
C10_TotalsConsistent ==
  \A i \in 1..Len(calcs) :
    LET c == calcs[i]
    IN  /\ DOMAIN c.assets = {"Cash / Savings", "Investments", "Property",
                              "Vehicles", "Other Assets"}
        /\ DOMAIN c.liabilities = {"Mortgage", "Student Loans",
                                   "Credit Card Debt", "Car Loans",
                                   "Other Liabilities"}
        /\ c.total_assets =
             c.assets["Cash / Savings"] + c.assets["Investments"]
               + c.assets["Property"] + c.assets["Vehicles"]
               + c.assets["Other Assets"]
        /\ c.total_liabilities =
             c.liabilities["Mortgage"] + c.liabilities["Student Loans"]
               + c.liabilities["Credit Card Debt"] + c.liabilities["Car Loans"]
               + c.liabilities["Other Liabilities"]
        /\ c.net_worth = c.total_assets - c.total_liabilities

\* C10 witness: two stored calculations, one with negative amounts and a
\* negative net worth, one of a form with no nonzero field.
C10_Witness ==
  /\ Len(calcs) = 2
  /\ \E c \in Rows(calcs) :
       /\ c.assets["Cash / Savings"] = -2
       /\ c.total_assets = 1
       /\ c.total_liabilities = 4
       /\ c.net_worth = -3
  /\ \E c \in Rows(calcs) :
       /\ \A k \in DOMAIN c.assets : c.assets[k] = 0
       /\ \A k \in DOMAIN c.liabilities : c.liabilities[k] = 0
       /\ c.net_worth = 0


\* The ledger: signup, calculate and history of two interleaved requests,
\* with the database clock advancing.
NextLedger ==
  \/ \E p \in Procs : SignupStart(p, CalcSignupInputs)
  \/ \E p \in Procs : SignupSelect(p)
  \/ \E p \in Procs : SignupCommit(p)
  \/ \E p \in Procs : SignupRefresh(p)
  \/ \E p \in Procs : CalculateStart(p, CalcCookieInputs, Forms)
  \/ \E p \in Procs : CalculateUser(p)
  \/ \E p \in Procs : CalculateCommit(p)
  \/ \E p \in Procs : HistoryStart(p)
  \/ \E p \in Procs : HistoryUser(p)
  \/ \E p \in Procs : HistorySelect(p)
  \/ \E p \in Procs : Finish(p)
  \/ Tick

SpecLedger == Init /\ [][NextLedger]_vars

\* C11: the calculations a history page shows are ordered by created_at
\* descending, and those with equal created_at by insertion order, the row
\* inserted first (the smaller id) first.
C11_NewestFirstTiesByInsertion ==
  \A p \in Procs :
    (pc[p] = "done" /\ req[p].kind = "history") =>
      LET shown == resp[p].calculations
      IN  \A k, l \in 1..Len(shown) :
            k < l =>
              \/ shown[k].created_at > shown[l].created_at
              \/ /\ shown[k].created_at = shown[l].created_at
                 /\ shown[k].id < shown[l].id


\* C12: the two tables only grow, by appending: no step changes or removes
\* a row of users or of calculations.  A row of users is added only by the
\* commit of a signup that goes on to succeed, a row of calculations only by
\* the commit of a calculate whose cookie resolves to a user; the steps of
\* home, login, logout and history, of a signup that fails and of a
\* calculate with no user leave both tables as they are.
C12_AppendOnly ==
  [][/\ Len(users') >= Len(users)
     /\ SubSeq(users', 1, Len(users)) = users
     /\ Len(calcs') >= Len(calcs)
     /\ SubSeq(calcs', 1, Len(calcs)) = calcs
     /\ users' # users =>
          /\ Len(users') = Len(users) + 1
          /\ \E p \in Procs :
               /\ req[p].kind = "signup"
               /\ pc[p] = "signup_commit"
               /\ pc'[p] = "signup_refresh"
               /\ users'[Len(users')].email = req[p].email
     /\ calcs' # calcs =>
          /\ Len(calcs') = Len(calcs) + 1
          /\ \E p \in Procs :
               /\ req[p].kind = "calculate"
               /\ pc[p] = "calculate_commit"
               /\ \E u \in OwnersOf(req[p].session) :
                    calcs'[Len(calcs')].user_id = u.id
     /\ \A p \in Procs :
          /\ (pc'[p] # pc[p]
                /\ req'[p].kind \in {"home", "login", "logout", "history"}) =>
               users' = users /\ calcs' = calcs
          /\ (pc'[p] # pc[p] /\ req'[p].kind = "signup" /\ pc'[p] = "done"
                /\ ~resp'[p].set_cookie.present) =>
               users' = users /\ calcs' = calcs
          /\ (pc'[p] # pc[p] /\ req'[p].kind = "calculate"
                /\ OwnersOf(req'[p].session) = {}) =>
               users' = users /\ calcs' = calcs]_vars

\* C12 witness: with rows in both tables, a logout and a history page were
\* answered, and the rows are still there.
C12_Witness ==
  /\ Len(users) = 2
  /\ Len(calcs) = 2
  /\ \E p, q \in Procs :
       /\ pc[p] = "done" /\ req[p].kind = "logout"
       /\ pc[q] = "done" /\ req[q].kind = "history"
       /\ Len(resp[q].calculations) = 2

====
